---- MODULE Spec2Model ----
(***************************************************************************)
(* AndroPrint: a print server for network receipt printers.                *)
(*                                                                         *)
(* The repository holds four versions of the server, and one of them runs  *)
(* in a deployment.  The variable "variant" names it:                      *)
(*   "root"  src/server.js            printers.json, authCheck             *)
(*   "p0"    src/unnamed/part_000     config/printer.json, authRequired    *)
(*   "core"  src/core/server.js 1-269 auto-mode /print, invoice renderer   *)
(*   "env"   src/core/server.js 271-504  printer.env, in-memory clients    *)
(* Definitions carry the variant as a prefix (Root_, P0_, Core_, Env_)     *)
(* because the files reuse the same function names.                        *)
(*                                                                         *)
(* The specifications share the variables:                                 *)
(*   Spec           the registry routes, from a fresh deployment           *)
(*   SpecServer     every privileged route, with any credentials           *)
(*   SpecInvoice    POST /print of "core" over a range of invoices         *)
(*   SpecClients    client registration next to the registry routes        *)
(*   SpecRace       save and delete requests in flight at the same time    *)
(*   SpecList       GET /api/printers and the probes it awaits             *)
(*   SpecFrame      the reading routes next to a route that writes         *)
(*   SpecProbe      isPrinterOnline and the events of its socket           *)
(*   SpecProbeFair  SpecProbe with the fairness of the socket's events     *)
(***************************************************************************)
EXTENDS Integers, Sequences, FiniteSets, TLC

VARIABLES
    variant,      \* which server file is running
    authEnabled,  \* ENABLE_AUTH / ENABLE_CLIENT_AUTH === "true"
    printerFile,  \* printers.json / config/printer.json: [kind, printers]
    clientFile,   \* clients.json: [kind, clients]
    printerEnv,   \* printer.env of the "env" variant: [exists, lines]
    wire,         \* the jobs transmitted to printers while the last request
                  \* was handled, in order
    probes,       \* the liveness probes in flight, see isPrinterOnline
    proc,         \* the memory of the server process: whether it is up, the
                  \* clients array and the rawPrint sockets of the "env"
                  \* variant, and the save and delete requests in flight
    req,          \* the last request handled: [route, hdr, body]
    resp          \* the response to it; "found" tells whether the handler
                  \* found the request's id in the registry

vars == <<variant, authEnabled, printerFile, clientFile, printerEnv, wire,
          probes, proc, req, resp>>

----------------------------------------------------------------------------
(* Bounds and input sets *)

\* the registry is explored up to this many stored records
MaxPrinters == 4

PrinterIds == {"P1", "P2", "P3", "P4"}
Roles == {"CASHIER", "KITCHEN", "BAR"}

\* a request body of POST /api/printer/save: a PrinterRecord
PrinterBodies == [id : PrinterIds, role : Roles, enabled : BOOLEAN]

\* a request header that was not sent (undefined, falsy)
NoHeader == "-"
ClientIds == {"clt-a", "clt-b"}
Pins == {"111111", "222222"}
Headers == [cid : ClientIds \cup {"clt-x", NoHeader}, key : Pins \cup {NoHeader}]

\* the client store a deployment starts with: one enabled client, one
\* disabled by hand in the file
SeedClients == << [id |-> "clt-a", pin |-> "111111", enabled |-> TRUE],
                  [id |-> "clt-b", pin |-> "222222", enabled |-> FALSE] >>

\* the process right after start: core/server.js:370 const clients = []
FreshProc == [up |-> TRUE, clients |-> <<>>, sockets |-> <<>>, calls |-> <<>>]

----------------------------------------------------------------------------
(* Sequence helpers: Array.prototype.findIndex / filter / find *)

\* first position whose id is the given one; 0 where JavaScript gives -1
RECURSIVE FindFrom(_, _, _)
FindFrom(s, id, i) ==
    IF i > Len(s) THEN 0
    ELSE IF s[i].id = id THEN i
    ELSE FindFrom(s, id, i + 1)

FindIndex(s, id) == FindFrom(s, id, 1)

RECURSIVE FilterOutId(_, _)
FilterOutId(s, id) ==
    IF s = <<>> THEN <<>>
    ELSE IF Head(s).id # id THEN <<Head(s)>> \o FilterOutId(Tail(s), id)
    ELSE FilterOutId(Tail(s), id)

CountRole(s, role) == Cardinality({i \in 1..Len(s) : s[i].role = role})

CountEnabledRole(s, role) ==
    Cardinality({i \in 1..Len(s) : s[i].role = role /\ s[i].enabled})

----------------------------------------------------------------------------
(* Persisted JSON documents *)

Doc(printers) == [kind |-> "doc", printers |-> printers]

\* src/server.js: JSON.parse(fs.readFileSync(PRINTER_FILE)).printers throws on
\* a missing or unparsable file
Root_readPrintersThrows == printerFile.kind # "doc"
Root_readPrinters == printerFile.printers

\* part_000: safeRead(PRINTER_FILE, { printers: [] }).printers
P0_safeReadPrinters ==
    IF printerFile.kind = "doc" THEN printerFile.printers ELSE <<>>
P0_loadPrinters == P0_safeReadPrinters

\* src/server.js: JSON.parse(fs.readFileSync(CLIENT_FILE)).clients
Root_readClients == clientFile.clients

\* part_000: safeRead(CLIENT_FILE, { clients: [] }).clients
P0_loadClients ==
    IF clientFile.kind = "doc" THEN clientFile.clients ELSE <<>>

\* core/server.js: safeRead(PRINTER_FILE, { printers: [] }).printers || []
Core_loadPrinters ==
    IF printerFile.kind = "doc" THEN printerFile.printers ELSE <<>>

\* core/server.js: safeRead(CLIENT_FILE, []); the file holds the array
Core_loadClients ==
    IF clientFile.kind = "doc" THEN clientFile.clients ELSE <<>>

----------------------------------------------------------------------------
(* Auth gates.  A gate gives the response it sends, or Pass when it lets   *)
(* the request through to the handler.                                     *)

Pass == [status |-> 0, body |-> ""]
Reject(status, body) == [status |-> status, body |-> body]

\* clients.find(c => c.id === id && c.pin === key && c.enabled)
FindValid(clients, hdr) ==
    \E i \in 1..Len(clients) :
        /\ clients[i].id = hdr.cid
        /\ clients[i].pin = hdr.key
        /\ clients[i].enabled

\* src/server.js authCheck
Root_authCheck(hdr) ==
    IF ~authEnabled THEN Pass
    ELSE IF ~FindValid(Root_readClients, hdr)
         THEN Reject(401, "Unauthorized")
         ELSE Pass

\* part_000 authRequired
P0_authRequired(hdr) ==
    IF ~authEnabled THEN Pass
    ELSE IF hdr.cid = NoHeader \/ hdr.key = NoHeader
         THEN Reject(401, "Client ID / Print Key missing")
    ELSE LET clients == P0_loadClients
             i == FindIndex(clients, hdr.cid)
         IN  IF i = 0 \/ ~clients[i].enabled
                 THEN Reject(403, "Client not allowed")
             ELSE IF clients[i].pin # hdr.key
                 THEN Reject(403, "Invalid Print Key")
             ELSE Pass

\* core/server.js authRequired
Core_authRequired(hdr) ==
    IF ~authEnabled THEN Pass
    ELSE IF hdr.cid = NoHeader \/ hdr.key = NoHeader
         THEN Reject(401, "Client auth required")
    ELSE IF ~FindValid(Core_loadClients, hdr)
         THEN Reject(403, "Invalid client")
    ELSE Pass

----------------------------------------------------------------------------
(* The "env" variant keeps the registry in printer.env, one KEY=value line *)
(* per field.  A string is a sequence of chunks: the characters the code   *)
(* looks at ("_", "=", newline, a leading "#") are chunks of their own,    *)
(* and any other chunk is a run of characters without them.                *)

NL == "\n"

\* String.prototype.toUpperCase / toLowerCase, chunk by chunk
UpperChunk(c) ==
    CASE c = "role" -> "ROLE"
      [] c = "status" -> "STATUS"
      [] c = "id" -> "ID"
      [] c = "Id" -> "ID"
      [] c = "b" -> "B"
      [] c = "cut" -> "CUT"
      [] OTHER -> c

LowerChunk(c) ==
    CASE c = "ROLE" -> "role"
      [] c = "STATUS" -> "status"
      [] c = "ID" -> "id"
      [] c = "Id" -> "id"
      [] c = "B" -> "b"
      [] c = "CUT" -> "cut"
      [] OTHER -> c

RECURSIVE ToUpperCase(_)
ToUpperCase(s) ==
    IF s = <<>> THEN <<>> ELSE <<UpperChunk(Head(s))>> \o ToUpperCase(Tail(s))

RECURSIVE ToLowerCase(_)
ToLowerCase(s) ==
    IF s = <<>> THEN <<>> ELSE <<LowerChunk(Head(s))>> \o ToLowerCase(Tail(s))

\* String.prototype.indexOf of a one-character separator; 0 where
\* JavaScript gives -1
RECURSIVE IndexFrom(_, _, _)
IndexFrom(s, c, i) ==
    IF i > Len(s) THEN 0
    ELSE IF s[i] = c THEN i
    ELSE IndexFrom(s, c, i + 1)

IndexOf(s, c) == IndexFrom(s, c, 1)

\* String.prototype.split(sep)
RECURSIVE Split(_, _)
Split(s, sep) ==
    LET i == IndexOf(s, sep)
    IN  IF i = 0 THEN <<s>>
        ELSE <<SubSeq(s, 1, i - 1)>> \o Split(SubSeq(s, i + 1, Len(s)), sep)

\* JavaScript values held in a flattened record: a string, or undefined;
\* "s" is what a template literal makes of the value
StrVal(chunks) == [t |-> "str", s |-> chunks]
Undefined == [t |-> "undef", s |-> <<"undefined">>]
TemplateStr(v) == v.s

\* An object is its entries [k, v] in insertion order
RECURSIVE KeyFrom(_, _, _)
KeyFrom(o, k, i) ==
    IF i > Len(o) THEN 0
    ELSE IF o[i].k = k THEN i
    ELSE KeyFrom(o, k, i + 1)

KeyIndex(o, k) == KeyFrom(o, k, 1)

ObjGet(o, k) == IF KeyIndex(o, k) = 0 THEN Undefined ELSE o[KeyIndex(o, k)].v

ObjSet(o, k, v) ==
    IF KeyIndex(o, k) = 0 THEN Append(o, [k |-> k, v |-> v])
    ELSE [o EXCEPT ![KeyIndex(o, k)].v = v]

RECURSIVE ObjDelete(_, _)
ObjDelete(o, k) ==
    IF o = <<>> THEN <<>>
    ELSE IF Head(o).k = k THEN ObjDelete(Tail(o), k)
    ELSE <<Head(o)>> \o ObjDelete(Tail(o), k)

IdKey == <<"id">>

\* core/server.js:330-338: one line of printer.env folded into printers
Env_loadLine(printers, l) ==
    IF l = <<>> \/ Head(l) = "#" THEN printers
    ELSE
    LET parts == Split(l, "=")
        k == parts[1]
        v == IF Len(parts) >= 2 THEN StrVal(parts[2]) ELSE Undefined
        rest == SubSeq(k, 3, Len(k))
        u == IndexOf(rest, "_")
    IN  \* k.match(/^PRINTER_(.*?)_(.*)$/)
        IF ~(Len(k) >= 2 /\ k[1] = "PRINTER" /\ k[2] = "_" /\ u > 0)
        THEN printers
        ELSE
        LET id == SubSeq(rest, 1, u - 1)
            key == ToLowerCase(SubSeq(rest, u + 1, Len(rest)))
            i == KeyIndex(printers, id)
            \* printers[id] ??= { id }
            base == IF i = 0
                    THEN Append(printers,
                                [k |-> id, v |-> <<[k |-> IdKey, v |-> StrVal(id)]>>])
                    ELSE printers
            j == IF i = 0 THEN Len(base) ELSE i
        IN  [base EXCEPT ![j].v = ObjSet(@, key, v)]

RECURSIVE Env_loadLines(_, _)
Env_loadLines(printers, lines) ==
    IF lines = <<>> THEN printers
    ELSE Env_loadLines(Env_loadLine(printers, Head(lines)), Tail(lines))

\* core/server.js:325-341
Env_loadPrinters(file) ==
    IF ~file.exists THEN <<>>
    ELSE Env_loadLines(<<>>, file.lines)

\* core/server.js:346-349: the lines of one record
RECURSIVE Env_recordLines(_, _)
Env_recordLines(p, entries) ==
    IF entries = <<>> THEN <<>>
    ELSE IF Head(entries).k = IdKey THEN Env_recordLines(p, Tail(entries))
    ELSE << <<"PRINTER", "_">> \o TemplateStr(ObjGet(p, IdKey)) \o <<"_">>
            \o ToUpperCase(Head(entries).k) \o <<"=">> \o TemplateStr(Head(entries).v) >>
         \o Env_recordLines(p, Tail(entries))

RECURSIVE Env_outLines(_)
Env_outLines(printers) ==
    IF printers = <<>> THEN <<>>
    ELSE Env_recordLines(Head(printers).v, Head(printers).v) \o << <<>> >>
         \o Env_outLines(Tail(printers))

\* core/server.js:343-353
\* The file is kept as the lines split("\n") finds in it: the text
\* out.join("\n") has the lines of every element of out, in order.
RECURSIVE FileLines(_)
FileLines(out) ==
    IF out = <<>> THEN <<>>
    ELSE Split(Head(out), NL) \o FileLines(Tail(out))

Env_savePrinters(printers) ==
    [exists |-> TRUE,
     lines |-> FileLines(<< <<"TOTAL", "_", "PRINTERS", "=", "6">> >>
                         \o Env_outLines(printers))]

----------------------------------------------------------------------------
(* POST /api/printer/save and /api/printer/delete                          *)

MaxPerRole == 3

Replace(s, i, p) == [s EXCEPT ![i] = p]

\* a handler that applies the quota to an id it already stores
Root_save_QuotaOnUpdate(printers, p) ==
    LET i == FindIndex(printers, p.id)
    IN  IF p.role = "CASHIER" /\ CountRole(printers, "CASHIER") >= MaxPerRole
        THEN [status |-> 400, body |-> "Max Cashier printers reached",
              found |-> i > 0, write |-> FALSE, printers |-> printers]
        ELSE [status |-> 200, body |-> "success", found |-> i > 0,
              write |-> TRUE,
              printers |-> IF i > 0 THEN Replace(printers, i, p)
                           ELSE Append(printers, p)]

\* src/server.js:110-128: what the handler answers and what it writes
Root_save(printers, p) ==
    LET cash == CountRole(printers, "CASHIER")
        kit  == CountRole(printers, "KITCHEN")
        i    == FindIndex(printers, p.id)
    IN  IF i = 0
        THEN IF p.role = "CASHIER" /\ cash >= MaxPerRole
                 THEN [status |-> 400, body |-> "Max Cashier printers reached",
                       found |-> FALSE, write |-> FALSE, printers |-> printers]
             ELSE IF p.role = "KITCHEN" /\ kit >= MaxPerRole
                 THEN [status |-> 400, body |-> "Max Kitchen printers reached",
                       found |-> FALSE, write |-> FALSE, printers |-> printers]
             ELSE [status |-> 200, body |-> "success", found |-> FALSE,
                   write |-> TRUE, printers |-> Append(printers, p)]
        ELSE [status |-> 200, body |-> "success", found |-> TRUE,
              write |-> TRUE, printers |-> Replace(printers, i, p)]

\* a handler that pushes without looking for the id
P0_save_AlwaysPush(printers, p) ==
    [status |-> 200, body |-> "success", found |-> FindIndex(printers, p.id) > 0,
     write |-> TRUE, printers |-> Append(printers, p)]

\* part_000:212-222
P0_save(printers, p) ==
    LET index == FindIndex(printers, p.id)
    IN  [status |-> 200, body |-> "success", found |-> index > 0, write |-> TRUE,
         printers |-> IF index > 0 THEN Replace(printers, index, p)
                      ELSE Append(printers, p)]

\* core/server.js:431-442
Env_save(printers, body) ==
    LET id == ObjGet(body, IdKey)
        role == ObjGet(body, <<"role">>)
        count == Cardinality({i \in 1..Len(printers) :
                                 ObjGet(printers[i].v, <<"role">>) = role})
        key == TemplateStr(id)
    IN  IF KeyIndex(printers, key) = 0 /\ count >= MaxPerRole
        THEN [status |-> 400, body |-> "Max 3 printers per role",
              found |-> FALSE, write |-> FALSE, printers |-> printers]
        ELSE [status |-> 200, body |-> "ok", found |-> KeyIndex(printers, key) > 0,
              write |-> TRUE, printers |-> ObjSet(printers, key, body)]

\* src/server.js:131: readPrinters().filter(p => p.id !== req.body.id)
Root_delete(printers, id) == FilterOutId(printers, id)

\* part_000:225: loadPrinters().filter(p => p.id !== req.body.id)
P0_delete(printers, id) == FilterOutId(printers, id)

\* core/server.js:446: delete printers[req.body.id]
Env_delete(printers, id) == ObjDelete(printers, id)

Request(route, hdr, body) == [route |-> route, hdr |-> hdr, body |-> body]

Response(route, status, body, found) ==
    [route |-> route, status |-> status, body |-> body, found |-> found]

\* Express answers 500 when a synchronous handler throws
ExpressError(route) == Response(route, 500, "Internal Server Error", FALSE)

\* src/server.js:110-128; the route has no auth middleware and never calls
\* authCheck
Root_PrinterSave(hdr, p) ==
    /\ variant = "root"
    /\ req' = Request("save", hdr, p)
    /\ IF Root_readPrintersThrows
       THEN /\ resp' = ExpressError("save")
            /\ UNCHANGED printerFile
       ELSE LET r == Root_save(Root_readPrinters, p)
            IN  /\ Len(r.printers) <= MaxPrinters
                /\ resp' = Response("save", r.status, r.body, r.found)
                /\ printerFile' = IF r.write THEN Doc(r.printers) ELSE printerFile
    /\ wire' = <<>>
    /\ UNCHANGED <<variant, authEnabled, clientFile, printerEnv, probes, proc>>

\* src/server.js:130-134
Root_PrinterDelete(hdr, id) ==
    /\ variant = "root"
    /\ req' = Request("delete", hdr, [id |-> id])
    /\ IF Root_readPrintersThrows
       THEN /\ resp' = ExpressError("delete")
            /\ UNCHANGED printerFile
       ELSE /\ resp' = Response("delete", 200, "success",
                                FindIndex(Root_readPrinters, id) > 0)
            /\ printerFile' = Doc(Root_delete(Root_readPrinters, id))
    /\ wire' = <<>>
    /\ UNCHANGED <<variant, authEnabled, clientFile, printerEnv, probes, proc>>

\* part_000:212-222, behind authRequired
P0_PrinterSave(hdr, p) ==
    /\ variant = "p0"
    /\ req' = Request("save", hdr, p)
    /\ LET g == P0_authRequired(hdr)
           r == P0_save(P0_loadPrinters, p)
       IN  IF g # Pass
           THEN /\ resp' = Response("save", g.status, g.body, FALSE)
                /\ UNCHANGED printerFile
           ELSE /\ Len(r.printers) <= MaxPrinters
                /\ resp' = Response("save", r.status, r.body, r.found)
                /\ printerFile' = Doc(r.printers)
    /\ wire' = <<>>
    /\ UNCHANGED <<variant, authEnabled, clientFile, printerEnv, probes, proc>>

\* part_000:224-228, behind authRequired
P0_PrinterDelete(hdr, id) ==
    /\ variant = "p0"
    /\ req' = Request("delete", hdr, [id |-> id])
    /\ LET g == P0_authRequired(hdr)
       IN  IF g # Pass
           THEN /\ resp' = Response("delete", g.status, g.body, FALSE)
                /\ UNCHANGED printerFile
           ELSE /\ resp' = Response("delete", 200, "success",
                                    FindIndex(P0_loadPrinters, id) > 0)
                /\ printerFile' = Doc(P0_delete(P0_loadPrinters, id))
    /\ wire' = <<>>
    /\ UNCHANGED <<variant, authEnabled, clientFile, printerEnv, probes, proc>>

\* core/server.js:431-442; the route has no auth middleware
Env_PrinterSave(hdr, body) ==
    /\ variant = "env"
    /\ req' = Request("save", hdr, body)
    /\ LET r == Env_save(Env_loadPrinters(printerEnv), body)
       IN  /\ Len(r.printers) <= MaxPrinters
           /\ resp' = Response("save", r.status, r.body, r.found)
           /\ printerEnv' = IF r.write THEN Env_savePrinters(r.printers)
                            ELSE printerEnv
    /\ wire' = <<>>
    /\ UNCHANGED <<variant, authEnabled, clientFile, printerFile, probes, proc>>

\* core/server.js:444-449
Env_PrinterDelete(hdr, id) ==
    /\ variant = "env"
    /\ req' = Request("delete", hdr, [id |-> id])
    /\ LET printers == Env_loadPrinters(printerEnv)
       IN  /\ resp' = Response("delete", 200, "ok", KeyIndex(printers, id) > 0)
           /\ printerEnv' = Env_savePrinters(Env_delete(printers, id))
    /\ wire' = <<>>
    /\ UNCHANGED <<variant, authEnabled, clientFile, printerFile, probes, proc>>

----------------------------------------------------------------------------
(* Dispatch: the routes that transmit a job to a printer.  What the        *)
(* printer library's execute() does is the network's choice:               *)
(*   "ok"     the buffer was written and execute() resolves truthy         *)
(*   "falsy"  the buffer was written and execute() resolves undefined      *)
(*   "throw"  the connection failed, nothing was written, execute() throws *)

ExecOutcomes == {"ok", "falsy", "throw"}

\* one buffered printer command: the library call, the text it prints, and
\* for a table row its number and the length of the item name printed
Cmd(op, text, seq, len) == [len |-> len, op |-> op, seq |-> seq, text |-> text]

\* a sequence of library calls whose text the model does not follow
Ops(names) == [k \in DOMAIN names |-> Cmd(names[k], "", 0, 0)]

Job(to, kind, cmds) == [to |-> to, kind |-> kind, cmds |-> cmds]

\* what execute() with the given outcome puts on the wire
Transmit(job, out) == IF out = "throw" THEN <<>> ELSE <<job>>

\* printers.find(p => p.id === printerId && p.enabled): its position, or 0
RECURSIVE FindEnabledFrom(_, _, _)
FindEnabledFrom(s, id, i) ==
    IF i > Len(s) THEN 0
    ELSE IF s[i].id = id /\ s[i].enabled THEN i
    ELSE FindEnabledFrom(s, id, i + 1)

FindEnabled(s, id) == FindEnabledFrom(s, id, 1)

\* an async handler that throws outside its try block sends no response
NoAnswer(route) == Response(route, 0, "", FALSE)

\* src/server.js:62-65
Root_getPrinter(printerId) == FindEnabled(Root_readPrinters, printerId)

\* src/server.js:136-155: no auth middleware, authCheck is not called
Root_PrinterTest(hdr, id, out) ==
    /\ variant = "root"
    /\ req' = Request("test", hdr, [id |-> id])
    /\ IF Root_readPrintersThrows
       THEN resp' = NoAnswer("test") /\ wire' = <<>>
       ELSE IF Root_getPrinter(id) = 0
       THEN resp' = Response("test", 404, "Printer not found", FALSE)
            /\ wire' = <<>>
       ELSE /\ wire' = Transmit(Job(id, "test",
                          Ops(<<"println", "println", "println", "cut">>)), out)
            /\ resp' = IF out = "throw"
                       THEN Response("test", 500, "e.message", TRUE)
                       ELSE Response("test", 200, "success", TRUE)
    /\ UNCHANGED <<variant, authEnabled, clientFile, printerFile, printerEnv,
                   probes, proc>>

\* src/server.js:160-179: the one route that calls authCheck
Root_Print(hdr, pid, text, out) ==
    /\ variant = "root"
    /\ req' = Request("print", hdr, [pid |-> pid, text |-> text])
    /\ LET g == Root_authCheck(hdr)
       IN  IF g # Pass
           THEN resp' = Response("print", g.status, g.body, FALSE)
                /\ wire' = <<>>
           ELSE IF Root_readPrintersThrows
           THEN resp' = NoAnswer("print") /\ wire' = <<>>
           ELSE IF Root_getPrinter(pid) = 0
           THEN resp' = Response("print", 404, "Printer not found", FALSE)
                /\ wire' = <<>>
           ELSE /\ wire' = Transmit(Job(pid, "text", Ops(<<"println", "cut">>)), out)
                /\ resp' = IF out = "throw"
                           THEN Response("print", 500, "e.message", TRUE)
                           ELSE Response("print", 200, "success", TRUE)
    /\ UNCHANGED <<variant, authEnabled, clientFile, printerFile, printerEnv,
                   probes, proc>>

\* src/server.js:184-200 (/img) and 205-228 (/pdftoimg): no auth middleware,
\* authCheck is not called; converting or loading the file may throw inside
\* the try block before anything is sent
Root_Image(route, hdr, pid, fileOk, out) ==
    /\ variant = "root"
    /\ req' = Request(route, hdr, [pid |-> pid, file |-> fileOk])
    /\ IF Root_readPrintersThrows
       THEN resp' = NoAnswer(route) /\ wire' = <<>>
       ELSE IF Root_getPrinter(pid) = 0
       THEN resp' = Response(route, 404, "Printer not found", FALSE)
            /\ wire' = <<>>
       ELSE IF ~fileOk
       THEN resp' = Response(route, 500, "e.message", TRUE) /\ wire' = <<>>
       ELSE /\ wire' = Transmit(Job(pid, route, Ops(<<"printImage", "cut">>)), out)
            /\ resp' = IF out = "throw"
                       THEN Response(route, 500, "e.message", TRUE)
                       ELSE Response(route, 200, "success", TRUE)
    /\ UNCHANGED <<variant, authEnabled, clientFile, printerFile, printerEnv,
                   probes, proc>>

\* part_000:232-277, behind authRequired; "online" is what the probe resolves
P0_PrinterTest(hdr, printerId, online, out) ==
    /\ variant = "p0"
    /\ req' = Request("test", hdr, [id |-> printerId, online |-> online])
    /\ LET g == P0_authRequired(hdr)
           job == Job(printerId, "test",
                      Ops(<<"println", "println", "println", "println",
                            "cut">>))
       IN  IF g # Pass
           THEN resp' = Response("test", g.status, g.body, FALSE)
                /\ wire' = <<>>
           ELSE IF FindEnabled(P0_loadPrinters, printerId) = 0
           THEN resp' = Response("test", 404, "Printer not found", FALSE)
                /\ wire' = <<>>
           ELSE IF ~online
           THEN resp' = Response("test", 500, "Printer offline", TRUE)
                /\ wire' = <<>>
           ELSE /\ wire' = Transmit(job, out)
                /\ resp' = CASE out = "ok" ->
                                  Response("test", 200, "success", TRUE)
                             [] out = "falsy" ->
                                  Response("test", 500, "Execute failed", TRUE)
                             [] OTHER ->
                                  Response("test", 500, "e.message", TRUE)
    /\ UNCHANGED <<variant, authEnabled, clientFile, printerFile, printerEnv,
                   probes, proc>>

\* part_000:146-158 printText and 279-316 /print, behind authRequired;
\* pid is req.headers["x-printer-id"] || req.body.printerId; marker is
\* body.isInvoiceData.isInvoice, which this handler never reads
P0_Print(hdr, pid, marker, text, out) ==
    /\ variant = "p0"
    /\ req' = Request("print", hdr,
                      [marker |-> marker, pid |-> pid, text |-> text])
    /\ LET g == P0_authRequired(hdr)
       IN  IF g # Pass
           THEN resp' = Response("print", g.status, g.body, FALSE)
                /\ wire' = <<>>
           ELSE IF pid = NoHeader \/ text = ""
           THEN resp' = Response("print", 400, "printerId or text missing", FALSE)
                /\ wire' = <<>>
           ELSE IF FindEnabled(P0_loadPrinters, pid) = 0
           THEN resp' = Response("print", 404, "Printer not found or disabled",
                                 FALSE)
                /\ wire' = <<>>
           ELSE /\ wire' = Transmit(Job(pid, "text", Ops(<<"println", "cut">>)), out)
                /\ resp' = IF out = "throw"
                           THEN Response("print", 500, "err.message", TRUE)
                           ELSE Response("print", 200, "Printed successfully",
                                         TRUE)
    /\ UNCHANGED <<variant, authEnabled, clientFile, printerFile, printerEnv,
                   probes, proc>>

\* String.prototype.toLowerCase on the printer ids in use
Lower(str) ==
    CASE str = "P1" -> "p1"
      [] str = "P2" -> "p2"
      [] str = "P3" -> "p3"
      [] str = "P4" -> "p4"
      [] OTHER -> str

\* core/server.js:143-150: the first enabled record whose id matches without
\* regard to case; the records carry no name
RECURSIVE Core_findFrom(_, _, _)
Core_findFrom(s, printerId, i) ==
    IF i > Len(s) THEN 0
    ELSE IF s[i].enabled /\ Lower(s[i].id) = Lower(printerId) THEN i
    ELSE Core_findFrom(s, printerId, i + 1)

\* String.prototype.substring(0, 18) on a string of the given length
Substring18(len) == IF len < 18 THEN len ELSE 18

\* core/server.js:228-238: the table row of the item at zero-based index i
Core_tableRow_FromZero(it, i) ==
    Cmd("tableCustom", "item", i, Substring18(it.len))

Core_tableRow(it, i) ==
    Cmd("tableCustom", "item", i + 1, Substring18(it.len))

\* core/server.js:198-256: the commands printInvoice buffers.  An invoice is
\*   name    comp.Name is truthy
\*   extras  which of comp.Place, comp.Ph, comp.gst are truthy
\*   party   master.BillPartyName is truthy
\*   table   the items in input order, each the length of its name
Core_printInvoice(data) ==
    <<Cmd("alignCenter", "", 0, 0), Cmd("bold", "true", 0, 0),
      Cmd("println", IF data.name THEN "Name" ELSE "COMPANY", 0, 0),
      Cmd("bold", "false", 0, 0)>>
    \o (IF "Place" \in data.extras
        THEN <<Cmd("println", "Place", 0, 0)>> ELSE <<>>)
    \o (IF "Ph" \in data.extras
        THEN <<Cmd("println", "Ph", 0, 0)>> ELSE <<>>)
    \o (IF "gst" \in data.extras
        THEN <<Cmd("println", "GSTIN", 0, 0)>> ELSE <<>>)
    \o <<Cmd("drawLine", "", 0, 0), Cmd("alignLeft", "", 0, 0),
         Cmd("println", "Bill No", 0, 0), Cmd("println", "Date", 0, 0)>>
    \o (IF data.party THEN <<Cmd("println", "Party", 0, 0)>> ELSE <<>>)
    \o <<Cmd("drawLine", "", 0, 0)>>
    \o [k \in 1..Len(data.table) |-> Core_tableRow(data.table[k], k - 1)]
    \o <<Cmd("drawLine", "", 0, 0), Cmd("alignRight", "", 0, 0),
         Cmd("bold", "true", 0, 0), Cmd("println", "NET TOTAL", 0, 0),
         Cmd("bold", "false", 0, 0), Cmd("newLine", "", 0, 0),
         Cmd("alignCenter", "", 0, 0), Cmd("println", "Thank you!", 0, 0),
         Cmd("cut", "", 0, 0)>>

\* core/server.js:166-186: what the body is dispatched as.  payload is
\*   marker  body.isInvoiceData?.isInvoice is truthy
\*   text    body.text, "" when absent
\*   data    the invoice fields of the body
Core_mode_TextFirst(payload) ==
    IF payload.text # "" THEN "text"
    ELSE IF payload.marker THEN "invoice"
    ELSE "none"

Core_mode(payload) ==
    IF payload.marker THEN "invoice"
    ELSE IF payload.text # "" THEN "text"
    ELSE "none"

\* core/server.js:136-192, behind authRequired; connected is what
\* isPrinterConnected() resolves
Core_Print_NoProbe(hdr, pid, payload, connected, out) ==
    /\ variant = "core"
    /\ req' = Request("print", hdr, [connected |-> connected,
                                     payload |-> payload, pid |-> pid])
    /\ LET g == Core_authRequired(hdr)
           i == Core_findFrom(Core_loadPrinters, pid, 1)
           to == Core_loadPrinters[i].id
       IN  IF g # Pass
           THEN resp' = Response("print", g.status, g.body, FALSE)
                /\ wire' = <<>>
           ELSE IF pid = NoHeader
           THEN resp' = Response("print", 400, "x-printer-id missing", FALSE)
                /\ wire' = <<>>
           ELSE IF i = 0
           THEN resp' = Response("print", 404, "Printer not found or disabled",
                                 FALSE)
                /\ wire' = <<>>
           ELSE IF Core_mode(payload) = "invoice"
           THEN /\ wire' = Transmit(Job(to, "invoice",
                                        Core_printInvoice(payload.data)), out)
                /\ resp' = IF out = "throw"
                           THEN Response("print", 500, "err.message", TRUE)
                           ELSE Response("print", 200, "invoice", TRUE)
           ELSE IF Core_mode(payload) = "text"
           THEN /\ wire' = Transmit(Job(to, "text",
                                        Ops(<<"println", "cut">>)), out)
                /\ resp' = IF out = "throw"
                           THEN Response("print", 500, "err.message", TRUE)
                           ELSE Response("print", 200, "text", TRUE)
           ELSE resp' = Response("print", 400, "Unsupported print payload", TRUE)
                /\ wire' = <<>>
    /\ UNCHANGED <<variant, authEnabled, clientFile, printerFile, printerEnv,
                   probes, proc>>

Core_Print(hdr, pid, payload, connected, out) ==
    /\ variant = "core"
    /\ req' = Request("print", hdr, [connected |-> connected,
                                     payload |-> payload, pid |-> pid])
    /\ LET g == Core_authRequired(hdr)
           i == Core_findFrom(Core_loadPrinters, pid, 1)
           to == Core_loadPrinters[i].id
       IN  IF g # Pass
           THEN resp' = Response("print", g.status, g.body, FALSE)
                /\ wire' = <<>>
           ELSE IF pid = NoHeader
           THEN resp' = Response("print", 400, "x-printer-id missing", FALSE)
                /\ wire' = <<>>
           ELSE IF i = 0
           THEN resp' = Response("print", 404, "Printer not found or disabled",
                                 FALSE)
                /\ wire' = <<>>
           ELSE IF ~connected
           THEN resp' = Response("print", 500, "Printer offline", TRUE)
                /\ wire' = <<>>
           ELSE IF Core_mode(payload) = "invoice"
           THEN /\ wire' = Transmit(Job(to, "invoice",
                                        Core_printInvoice(payload.data)), out)
                /\ resp' = IF out = "throw"
                           THEN Response("print", 500, "err.message", TRUE)
                           ELSE Response("print", 200, "invoice", TRUE)
           ELSE IF Core_mode(payload) = "text"
           THEN /\ wire' = Transmit(Job(to, "text",
                                        Ops(<<"println", "cut">>)), out)
                /\ resp' = IF out = "throw"
                           THEN Response("print", 500, "err.message", TRUE)
                           ELSE Response("print", 200, "text", TRUE)
           ELSE resp' = Response("print", 400, "Unsupported print payload", TRUE)
                /\ wire' = <<>>
    /\ UNCHANGED <<variant, authEnabled, clientFile, printerFile, printerEnv,
                   probes, proc>>

----------------------------------------------------------------------------
(* Dispatch of the "env" variant: rawPrint opens a socket and returns; the *)
(* handler answers before the socket has connected.  A socket is a record  *)
(*   to       the key of the printer record it was opened for              *)
(*   text     the text handed to rawPrint                                  *)
(*   cut      printer.cut === "true"                                       *)
(*   phase    "connecting", "ended" after socket.end(), "failed"           *)
(*   written  what was written, in order: "text", "cut", and "end" for the *)
(*            half-close                                                   *)

\* rawPrint sockets are explored up to this many per process
MaxSockets == 1

\* core/server.js:372-383; res.sendStatus sends the status text as the body
Env_auth(hdr) ==
    IF ~authEnabled THEN Pass
    ELSE IF hdr.cid = NoHeader \/ hdr.key = NoHeader
         THEN Reject(401, "Unauthorized")
    ELSE IF ~\E i \in 1..Len(proc.clients) :
                /\ proc.clients[i].id = hdr.cid
                /\ proc.clients[i].pin = hdr.key
         THEN Reject(403, "Forbidden")
    ELSE Pass

\* core/server.js:358-360: new net.Socket(), socket.connect(port, ip, cb)
rawPrint(to, printer, text) ==
    [to |-> to, text |-> text,
     cut |-> ObjGet(printer, <<"cut">>) = StrVal(<<"true">>),
     phase |-> "connecting", written |-> <<>>]

\* core/server.js:361-363: the connect callback
Raw_onConnect(sk) ==
    [sk EXCEPT !.phase = "ended",
               !.written = IF sk.cut THEN <<"text", "cut", "end">>
                           ELSE <<"text", "end">>]

\* core/server.js:451-457: no auth middleware, no look at the status field
Env_PrinterTest(hdr, printerId) ==
    /\ variant = "env"
    /\ proc.up
    /\ req' = Request("test", hdr, [id |-> printerId])
    /\ wire' = <<>>
    /\ LET printers == Env_loadPrinters(printerEnv)
           p == ObjGet(printers, printerId)
       IN  IF KeyIndex(printers, printerId) = 0
           THEN /\ resp' = Response("test", 404, "Not Found", FALSE)
                /\ UNCHANGED proc
           ELSE /\ Len(proc.sockets) < MaxSockets
                /\ proc' = [proc EXCEPT !.sockets =
                              Append(@, rawPrint(printerId, p, "TEST PRINT"))]
                /\ resp' = Response("test", 200, "ok", TRUE)
    /\ UNCHANGED <<variant, authEnabled, clientFile, printerFile, printerEnv,
                   probes>>

\* core/server.js:462-472, behind auth; DEFAULT_PRINTER is not set
Env_Print(hdr, pid, text) ==
    /\ variant = "env"
    /\ proc.up
    /\ req' = Request("print", hdr, [pid |-> pid, text |-> text])
    /\ wire' = <<>>
    /\ LET g == Env_auth(hdr)
           printers == Env_loadPrinters(printerEnv)
           p == ObjGet(printers, pid)
       IN  IF g # Pass
           THEN /\ resp' = Response("print", g.status, g.body, FALSE)
                /\ UNCHANGED proc
           ELSE IF \/ KeyIndex(printers, pid) = 0
                   \/ ObjGet(p, <<"status">>) # StrVal(<<"enabled">>)
           THEN /\ resp' = Response("print", 400, "Printer unavailable", FALSE)
                /\ UNCHANGED proc
           ELSE /\ Len(proc.sockets) < MaxSockets
                /\ proc' = [proc EXCEPT !.sockets = Append(@, rawPrint(pid, p, text))]
                /\ resp' = Response("print", 200, "ok", TRUE)
    /\ UNCHANGED <<variant, authEnabled, clientFile, printerFile, printerEnv,
                   probes>>

\* the printer accepts the connection: the connect callback runs
RawConnect(i) ==
    /\ variant = "env"
    /\ proc.up
    /\ i \in 1..Len(proc.sockets)
    /\ proc.sockets[i].phase = "connecting"
    /\ proc' = [proc EXCEPT !.sockets[i] = Raw_onConnect(@)]
    /\ UNCHANGED <<variant, authEnabled, clientFile, printerFile, printerEnv,
                   wire, probes, req, resp>>

\* the connection is refused, unreachable or times out: the socket emits
\* "error", rawPrint registered no listener for it, and an error event
\* without a listener is thrown as an uncaught exception, which ends the
\* process
RawError(i) ==
    /\ variant = "env"
    /\ proc.up
    /\ i \in 1..Len(proc.sockets)
    /\ proc.sockets[i].phase = "connecting"
    /\ proc' = [proc EXCEPT !.sockets[i].phase = "failed", !.up = FALSE]
    /\ UNCHANGED <<variant, authEnabled, clientFile, printerFile, printerEnv,
                   wire, probes, req, resp>>

----------------------------------------------------------------------------
(* The registry specification: save and delete from a fresh deployment *)

\* four ids let a role pass the quota of three; only one role has a
\* disabled record, which keeps the registry small
RegistryBodies == {b \in PrinterBodies : b.enabled \/ b.role = "CASHIER"}

\* part_000 never looks at the role or the enabled flag
P0Bodies == {b \in PrinterBodies : b.enabled /\ b.role \in {"CASHIER", "BAR"}}

ValidHeaders == [cid |-> "clt-a", key |-> "111111"]
NoHeaders == [cid |-> NoHeader, key |-> NoHeader]
RegistryHeaders == {ValidHeaders, NoHeaders}

EnvIds == {<<"K1">>, <<"K2">>, <<"K3">>, <<"K4">>}
EnvRoles == {"CASHIER", "BAR"}
EnvBody(id, role) ==
    << [k |-> IdKey, v |-> StrVal(id)],
       [k |-> <<"role">>, v |-> StrVal(<<role>>)],
       [k |-> <<"status">>, v |-> StrVal(<<"enabled">>)] >>
\* a body with a second key that differs from "id" only by case
EnvOddBody ==
    << [k |-> IdKey, v |-> StrVal(<<"K2">>)],
       [k |-> <<"Id">>, v |-> StrVal(<<"K3">>)],
       [k |-> <<"role">>, v |-> StrVal(<<"BAR">>)] >>
EnvBodies == {EnvBody(id, role) : id \in EnvIds, role \in EnvRoles}
                 \cup {EnvOddBody}

NoRequest == Request("none", NoHeaders, [id |-> ""])
NoResponse == Response("none", 0, "", FALSE)

Init ==
    /\ variant \in {"root", "p0", "env"}
    \* only part_000 consults the flag on these routes
    /\ authEnabled \in (IF variant = "p0" THEN BOOLEAN ELSE {FALSE})
    /\ printerFile \in {Doc(<<>>), [kind |-> "missing", printers |-> <<>>],
                        [kind |-> "empty", printers |-> <<>>],
                        [kind |-> "corrupt", printers |-> <<>>]}
    \* src/server.js:30 creates printers.json when it is missing
    /\ variant = "root" => printerFile.kind # "missing"
    /\ variant = "env" => printerFile.kind = "missing"
    /\ clientFile = [kind |-> "doc", clients |-> SeedClients]
    /\ printerEnv = [exists |-> FALSE, lines |-> <<>>]
    /\ wire = <<>>
    /\ probes = <<>>
    /\ proc = FreshProc
    /\ req = NoRequest
    /\ resp = NoResponse

Next ==
    \/ \E p \in RegistryBodies : Root_PrinterSave(NoHeaders, p)
    \/ \E id \in PrinterIds : Root_PrinterDelete(NoHeaders, id)
    \/ \E hdr \in RegistryHeaders, p \in P0Bodies : P0_PrinterSave(hdr, p)
    \/ \E hdr \in RegistryHeaders, id \in PrinterIds : P0_PrinterDelete(hdr, id)
    \/ \E b \in EnvBodies : Env_PrinterSave(NoHeaders, b)
    \/ \E id \in EnvIds : Env_PrinterDelete(NoHeaders, id)

Spec == Init /\ [][Next]_vars

----------------------------------------------------------------------------
(* The server specification: every privileged route of the three servers   *)
(* that read clients.json, with any headers, from a registry of two        *)
(* printers                                                                *)

ServerIds == {"P1", "P2"}
ServerBodies == [id : ServerIds, role : {"CASHIER"}, enabled : BOOLEAN]
SeedPrinters == << [id |-> "P1", role |-> "CASHIER", enabled |-> TRUE],
                   [id |-> "P2", role |-> "CASHIER", enabled |-> FALSE] >>

\* x-printer-id as sent: an id, an id in lower case, or no header
PrinterHeaders == {"P1", "P2", NoHeader}
CorePrinterHeaders == PrinterHeaders \cup {"p1"}

\* headers for the routes that have no gate: none, and a wrong key
UngatedHeaders == {[cid |-> NoHeader, key |-> NoHeader],
                   [cid |-> "clt-a", key |-> "222222"]}
Texts == {"", "hello"}

\* an invoice of one item whose name is longer than a table cell
SampleInvoice ==
    [extras |-> {}, name |-> TRUE, party |-> FALSE, table |-> <<[len |-> 20]>>]

\* bodies of POST /print: with or without the invoice marker and a text
Payloads ==
    {[data |-> SampleInvoice, marker |-> mk, text |-> t] :
       mk \in BOOLEAN, t \in Texts}

\* printer.env as the "env" server wrote it: K1 enabled and cutting, K2
\* disabled, K3 enabled without a cut field; ip and port are left out of
\* the records and stand behind the key
EnvRecord(id, status, cut) ==
    [k |-> id,
     v |-> << [k |-> IdKey, v |-> StrVal(id)],
              [k |-> <<"status">>, v |-> StrVal(<<status>>)] >>
           \o (IF cut THEN << [k |-> <<"cut">>, v |-> StrVal(<<"true">>)] >>
               ELSE <<>>)]
SeedEnvPrinters ==
    << EnvRecord(<<"K1">>, "enabled", TRUE),
       EnvRecord(<<"K2">>, "disabled", TRUE),
       EnvRecord(<<"K3">>, "enabled", FALSE) >>

\* req.body.printerId / x-printer-id of the "env" routes; K9 is not stored
EnvDispatchIds == {<<"K1">>, <<"K2">>, <<"K3">>, <<"K9">>}

\* headers for the "env" gate: the registered client, none, a wrong key
EnvHeaders == {ValidHeaders} \cup UngatedHeaders

\* the process after one client was registered
SeedProc == [FreshProc EXCEPT !.clients = <<[id |-> "clt-a", pin |-> "111111"]>>]

InitServer ==
    /\ variant \in {"root", "p0", "core", "env"}
    /\ authEnabled \in BOOLEAN
    /\ printerFile = IF variant = "env" THEN [kind |-> "missing", printers |-> <<>>]
                     ELSE Doc(SeedPrinters)
    /\ clientFile = [kind |-> "doc", clients |-> SeedClients]
    /\ printerEnv = IF variant = "env" THEN Env_savePrinters(SeedEnvPrinters)
                    ELSE [exists |-> FALSE, lines |-> <<>>]
    /\ wire = <<>>
    /\ probes = <<>>
    /\ proc = IF variant = "env" THEN SeedProc ELSE FreshProc
    /\ req = NoRequest
    /\ resp = NoResponse

Handle ==
    \/ \E hdr \in UngatedHeaders, p \in ServerBodies : Root_PrinterSave(hdr, p)
    \/ \E hdr \in UngatedHeaders, id \in ServerIds : Root_PrinterDelete(hdr, id)
    \/ \E hdr \in UngatedHeaders, id \in ServerIds, out \in ExecOutcomes :
          Root_PrinterTest(hdr, id, out)
    \/ \E hdr \in Headers, pid \in PrinterHeaders, text \in Texts,
          out \in ExecOutcomes : Root_Print(hdr, pid, text, out)
    \/ \E route \in {"img", "pdftoimg"}, hdr \in UngatedHeaders,
          pid \in PrinterHeaders, fileOk \in BOOLEAN, out \in ExecOutcomes :
          Root_Image(route, hdr, pid, fileOk, out)
    \/ \E hdr \in Headers, p \in ServerBodies : P0_PrinterSave(hdr, p)
    \/ \E hdr \in Headers, id \in ServerIds : P0_PrinterDelete(hdr, id)
    \/ \E hdr \in Headers, id \in ServerIds, online \in BOOLEAN,
          out \in ExecOutcomes : P0_PrinterTest(hdr, id, online, out)
    \/ \E hdr \in Headers, pid \in PrinterHeaders, marker \in BOOLEAN,
          text \in Texts, out \in ExecOutcomes :
          P0_Print(hdr, pid, marker, text, out)
    \/ \E hdr \in Headers, pid \in CorePrinterHeaders, payload \in Payloads,
          connected \in BOOLEAN, out \in ExecOutcomes :
          Core_Print(hdr, pid, payload, connected, out)
    \/ \E hdr \in UngatedHeaders, id \in EnvDispatchIds : Env_PrinterTest(hdr, id)
    \/ \E hdr \in EnvHeaders, pid \in EnvDispatchIds, text \in Texts :
          Env_Print(hdr, pid, text)
    \/ \E i \in 1..MaxSockets : RawConnect(i)
    \/ \E i \in 1..MaxSockets : RawError(i)

NextServer == Handle

SpecServer == InitServer /\ [][NextServer]_vars

----------------------------------------------------------------------------
(* Client registration: POST /api/client/create of part_000, which keeps    *)
(* the clients in clients.json, and of the "env" server, which keeps them   *)
(* in the memory of the process.  The identifier and the secret come from   *)
(* the random source; what the caller sends is the body.                    *)

\* the client store is explored up to this many records
MaxClients == 3

\* what crypto.randomBytes / crypto.randomUUID and Math.random may yield
MintIds == {"clt-m1", "clt-m2"}
MintPins == {"333333"}

\* bodies a caller may send with the registration: none, or an id and a pin
\* of its own choosing, which may name a registered client
NoBody == [id |-> NoHeader, pin |-> NoHeader]
CreateBodies == {NoBody, [id |-> "clt-a", pin |-> "000000"]}

\* part_000:180-186 without role and createdAt
P0_newClient_FromBody(body, id, pin) ==
    [id |-> body.id, enabled |-> TRUE, pin |-> body.pin]

P0_newClient(body, id, pin) == [id |-> id, enabled |-> TRUE, pin |-> pin]

\* core/server.js:411
Env_newClient(body, id, pin) == [id |-> id, pin |-> pin]

\* part_000:175-192; the route has no auth middleware
P0_ClientCreate(body, id, pin) ==
    /\ variant = "p0"
    /\ Len(P0_loadClients) < MaxClients
    /\ req' = Request("create", NoHeaders, body)
    /\ clientFile' = [kind |-> "doc",
                      clients |-> Append(P0_loadClients,
                                         P0_newClient(body, id, pin))]
    /\ resp' = Response("create", 200, "client", FALSE)
    /\ wire' = <<>>
    /\ UNCHANGED <<variant, authEnabled, printerFile, printerEnv, probes, proc>>

\* core/server.js:408-413; the route has no auth middleware
Env_ClientCreate(body, id, pin) ==
    /\ variant = "env"
    /\ proc.up
    /\ Len(proc.clients) < MaxClients
    /\ req' = Request("create", NoHeaders, body)
    /\ proc' = [proc EXCEPT !.clients = Append(@, Env_newClient(body, id, pin))]
    /\ resp' = Response("create", 200, "client", FALSE)
    /\ wire' = <<>>
    /\ UNCHANGED <<variant, authEnabled, clientFile, printerFile, printerEnv,
                   probes>>

\* clients.json as the server may find it at a request
ClientFiles ==
    {[kind |-> "doc", clients |-> SeedClients],
     [kind |-> "missing", clients |-> <<>>],
     [kind |-> "corrupt", clients |-> <<>>]}

InitClients ==
    /\ variant \in {"p0", "env"}
    /\ authEnabled \in BOOLEAN
    /\ printerFile = IF variant = "env" THEN [kind |-> "missing", printers |-> <<>>]
                     ELSE Doc(SeedPrinters)
    /\ clientFile \in (IF variant = "p0" THEN ClientFiles
                       ELSE {[kind |-> "missing", clients |-> <<>>]})
    /\ printerEnv = [exists |-> FALSE, lines |-> <<>>]
    /\ wire = <<>>
    /\ probes = <<>>
    /\ proc \in (IF variant = "env" THEN {FreshProc, SeedProc} ELSE {FreshProc})
    /\ req = NoRequest
    /\ resp = NoResponse

NextClients ==
    \/ \E body \in CreateBodies, id \in MintIds, pin \in MintPins :
          P0_ClientCreate(body, id, pin)
    \/ \E body \in CreateBodies, id \in MintIds, pin \in MintPins :
          Env_ClientCreate(body, id, pin)
    \/ \E hdr \in RegistryHeaders, p \in ServerBodies : P0_PrinterSave(hdr, p)
    \/ \E hdr \in RegistryHeaders, id \in ServerIds : P0_PrinterDelete(hdr, id)
    \/ \E id \in EnvIds : Env_PrinterDelete(NoHeaders, id)

SpecClients == InitClients /\ [][NextClients]_vars

----------------------------------------------------------------------------
(* Overlapping registry requests of src/server.js (110-134) and part_000    *)
(* (212-228).  A request arrives when its body has been received; later the *)
(* event loop calls its handler, which reads the registry file, changes the *)
(* array it read and writes the file.  A call is a record                   *)
(*   op, body  the route and the request body                               *)
(*   pc        "arrived", "read" once the handler has loaded the registry,  *)
(*             "done" once it has answered                                  *)
(*   local     the array the handler loaded                                 *)
(*   during    whether a handler was between its read and its write when    *)
(*             the request arrived                                          *)

\* requests in flight are explored up to this many
MaxCalls == 2

\* the registry the file holds
Stored == IF variant = "root" THEN Root_readPrinters ELSE P0_loadPrinters

\* a handler has read the registry and not yet written it
OnStack == \E j \in 1..Len(proc.calls) : proc.calls[j].pc = "read"

\* whether the event loop may call the handler of call i.  A handler that
\* awaited between loadPrinters() and savePrinters() would let it
MayRun_Yielding(i) == TRUE

\* The handlers are synchronous from the read to the write, and the event
\* loop calls no other callback while one is running
MayRun(i) == ~OnStack

\* what the handler of the call computes from the array it loaded
Outcome(call) ==
    IF call.op = "save"
    THEN IF variant = "root" THEN Root_save(call.local, call.body)
         ELSE P0_save(call.local, call.body)
    ELSE [status |-> 200, body |-> "success",
          found |-> FindIndex(call.local, call.body.id) > 0, write |-> TRUE,
          printers |-> IF variant = "root"
                       THEN Root_delete(call.local, call.body.id)
                       ELSE P0_delete(call.local, call.body.id)]

Arrive(op, body) ==
    /\ variant \in {"root", "p0"}
    /\ Len(proc.calls) < MaxCalls
    /\ proc' = [proc EXCEPT !.calls =
                  Append(@, [op |-> op, body |-> body, pc |-> "arrived",
                             local |-> <<>>, during |-> OnStack])]
    /\ UNCHANGED <<variant, authEnabled, printerFile, clientFile, printerEnv,
                   wire, probes, req, resp>>

\* readPrinters() / loadPrinters()
HandlerRead(i) ==
    /\ i \in 1..Len(proc.calls)
    /\ proc.calls[i].pc = "arrived"
    /\ MayRun(i)
    /\ proc' = [proc EXCEPT !.calls[i].pc = "read", !.calls[i].local = Stored]
    /\ UNCHANGED <<variant, authEnabled, printerFile, clientFile, printerEnv,
                   wire, probes, req, resp>>

\* the rest of the handler: savePrinters(printers); res.json(...)
HandlerWrite(i) ==
    /\ i \in 1..Len(proc.calls)
    /\ proc.calls[i].pc = "read"
    /\ LET call == proc.calls[i]
           r == Outcome(call)
       IN  /\ printerFile' = IF r.write THEN Doc(r.printers) ELSE printerFile
           /\ req' = Request(call.op, NoHeaders, call.body)
           /\ resp' = Response(call.op, r.status, r.body, r.found)
    /\ proc' = [proc EXCEPT !.calls[i].pc = "done"]
    /\ wire' = <<>>
    /\ UNCHANGED <<variant, authEnabled, clientFile, printerEnv, probes>>

InitRace ==
    /\ variant \in {"root", "p0"}
    /\ authEnabled = FALSE
    /\ printerFile \in {Doc(<<>>), Doc(SeedPrinters)}
    /\ clientFile = [kind |-> "doc", clients |-> SeedClients]
    /\ printerEnv = [exists |-> FALSE, lines |-> <<>>]
    /\ wire = <<>>
    /\ probes = <<>>
    /\ proc = FreshProc
    /\ req = NoRequest
    /\ resp = NoResponse

NextRace ==
    \/ \E p \in ServerBodies : Arrive("save", p)
    \/ \E id \in ServerIds : Arrive("delete", [id |-> id])
    \/ \E i \in 1..MaxCalls : HandlerRead(i)
    \/ \E i \in 1..MaxCalls : HandlerWrite(i)

SpecRace == InitRace /\ [][NextRace]_vars

----------------------------------------------------------------------------
(* The invoice renderer on its own: an authorised POST /print with the      *)
(* invoice marker to a reachable enabled printer, over a range of invoices. *)

\* invoices are explored up to this many table rows
MaxRows == 2

\* lengths of item names: a short one, a full cell, one character more
NameLens == {5, 18, 19}

\* which optional company lines an invoice has
Extras == {{}, {"Place"}, {"Ph"}, {"gst"}, {"Place", "Ph", "gst"}}

Tables == UNION {[1..n -> [len : NameLens]] : n \in 0..MaxRows}

Invoices ==
    [extras : Extras, name : BOOLEAN, party : BOOLEAN, table : Tables]

InitInvoice ==
    /\ variant = "core"
    /\ authEnabled = FALSE
    /\ printerFile = Doc(SeedPrinters)
    /\ clientFile = [kind |-> "doc", clients |-> SeedClients]
    /\ printerEnv = [exists |-> FALSE, lines |-> <<>>]
    /\ wire = <<>>
    /\ probes = <<>>
    /\ proc = FreshProc
    /\ req = NoRequest
    /\ resp = NoResponse

\* bodies of POST /print that carry the invoice marker and one invoice
InvoicePayloads ==
    {[data |-> inv, marker |-> TRUE, text |-> ""] : inv \in Invoices}

NextInvoice ==
    \E payload \in InvoicePayloads, out \in ExecOutcomes :
       Core_Print([cid |-> NoHeader, key |-> NoHeader], "P1", payload, TRUE,
                  out)

SpecInvoice == InitInvoice /\ [][NextInvoice]_vars

----------------------------------------------------------------------------
(* isPrinterOnline: one net.Socket per call.  A probe is a record           *)
(*   target   what is at (ip, port): see Targets                            *)
(*   phase    "idle" before the call, "connecting", "destroyed" after       *)
(*            socket.destroy(), "failed" after an error (the socket         *)
(*            destroys itself), "closed" after the close event              *)
(*   timedOut the idle timer has fired; it is not armed again               *)
(*   online   the local variable of part_000                                *)
(*   promise  "pending", "true", "false", or "rejected" when the executor   *)
(*            threw                                                         *)
(*   settles  how many times the promise changed its result                 *)
(*   events   the socket events emitted so far                              *)

\* concurrent probes: GET /api/printers starts one per stored printer
NumProbes == 2

\* "open" completes the handshake and stays quiet, "chatty" completes it and
\* sends data at once, "refused" answers RST, "unreachable" has no route,
\* "silent" never answers, "badport" is a port outside 0..65535
Targets == {"open", "chatty", "refused", "unreachable", "silent", "badport"}

IdleProbe ==
    [target |-> "open", phase |-> "idle", timedOut |-> FALSE, online |-> FALSE,
     promise |-> "pending", settles |-> 0, events |-> <<>>]

\* the resolve function of new Promise(resolve => ...): the first call
\* settles the promise, later calls do nothing
Resolve_Overwrite(p, v) ==
    [p EXCEPT !.promise = v, !.settles = @ + 1]

Resolve(p, v) ==
    IF p.promise = "pending"
    THEN [p EXCEPT !.promise = v, !.settles = @ + 1]
    ELSE p

Emitted(p, ev) == [p EXCEPT !.events = Append(@, ev)]

\* part_000:127-142 and core/server.js:98-110 up to the end of the executor.
\* socket.connect(port, ip) throws at once on a port out of range, inside
\* the executor, which rejects the promise.
StartProbe(p, target) ==
    IF target = "badport"
    THEN [p EXCEPT !.target = target, !.phase = "closed", !.promise = "rejected",
                   !.settles = 1]
    ELSE [p EXCEPT !.target = target, !.phase = "connecting"]

\* part_000:133-136: the connect callback
P0_onConnect(p) == [p EXCEPT !.online = TRUE, !.phase = "destroyed"]
\* part_000:138: socket.on("error", () => {})
P0_onError(p) == [p EXCEPT !.phase = "failed"]
\* part_000:139: socket.on("timeout", () => socket.destroy())
P0_onTimeout(p) == [p EXCEPT !.timedOut = TRUE, !.phase = "destroyed"]
\* part_000:140: socket.on("close", () => resolve(online))
P0_onClose(p) ==
    Resolve([p EXCEPT !.phase = "closed"], IF p.online THEN "true" ELSE "false")

\* core/server.js:102-105: destroy, then resolve(true)
Core_onConnect(p) == Resolve([p EXCEPT !.phase = "destroyed"], "true")
\* core/server.js:106
Core_onError(p) == Resolve([p EXCEPT !.phase = "failed"], "false")
\* core/server.js:107: resolve(false); the socket is left as it is
Core_onTimeout(p) == Resolve([p EXCEPT !.timedOut = TRUE], "false")
\* core/server.js registers no close listener
Core_onClose(p) == [p EXCEPT !.phase = "closed"]

isPrinterOnline(i, target) ==
    /\ variant \in {"p0", "core"}
    /\ probes[i].phase = "idle"
    /\ probes' = [probes EXCEPT ![i] = StartProbe(@, target)]
    /\ UNCHANGED <<variant, authEnabled, printerFile, clientFile, printerEnv,
                   wire, proc, req, resp>>

\* the three-way handshake completes
SocketConnect(i) ==
    /\ probes[i].phase = "connecting"
    /\ probes[i].target \in {"open", "chatty"}
    /\ probes' = [probes EXCEPT ![i] =
                    IF variant = "p0" THEN P0_onConnect(Emitted(@, "connect"))
                    ELSE Core_onConnect(Emitted(@, "connect"))]
    /\ UNCHANGED <<variant, authEnabled, printerFile, clientFile, printerEnv,
                   wire, proc, req, resp>>

\* the connection attempt fails: at once when refused or unreachable, and
\* after the operating system gives up on a silent host, which is later
\* than the idle timer
SocketError(i) ==
    /\ probes[i].phase = "connecting"
    /\ \/ probes[i].target \in {"refused", "unreachable"}
       \/ probes[i].target = "silent" /\ probes[i].timedOut
    /\ probes' = [probes EXCEPT ![i] =
                    IF variant = "p0" THEN P0_onError(Emitted(@, "error"))
                    ELSE Core_onError(Emitted(@, "error"))]
    /\ UNCHANGED <<variant, authEnabled, printerFile, clientFile, printerEnv,
                   wire, proc, req, resp>>

\* socket.setTimeout(1500): the idle timer fires while the socket is still
\* connecting, whatever the target is
SocketTimeout(i) ==
    /\ probes[i].phase = "connecting"
    /\ ~probes[i].timedOut
    /\ probes' = [probes EXCEPT ![i] =
                    IF variant = "p0" THEN P0_onTimeout(Emitted(@, "timeout"))
                    ELSE Core_onTimeout(Emitted(@, "timeout"))]
    /\ UNCHANGED <<variant, authEnabled, printerFile, clientFile, printerEnv,
                   wire, proc, req, resp>>

\* close follows destroy() and follows an error
SocketClose(i) ==
    /\ probes[i].phase \in {"destroyed", "failed"}
    /\ probes' = [probes EXCEPT ![i] =
                    IF variant = "p0" THEN P0_onClose(Emitted(@, "close"))
                    ELSE Core_onClose(Emitted(@, "close"))]
    /\ UNCHANGED <<variant, authEnabled, printerFile, clientFile, printerEnv,
                   wire, proc, req, resp>>

InitProbe ==
    /\ variant \in {"p0", "core"}
    /\ authEnabled = FALSE
    /\ printerFile = Doc(SeedPrinters)
    /\ clientFile = [kind |-> "doc", clients |-> SeedClients]
    /\ printerEnv = [exists |-> FALSE, lines |-> <<>>]
    /\ wire = <<>>
    /\ probes = [i \in 1..NumProbes |-> IdleProbe]
    /\ proc = FreshProc
    /\ req = NoRequest
    /\ resp = NoResponse

NextProbe ==
    \/ \E i \in 1..NumProbes, target \in Targets : isPrinterOnline(i, target)
    \/ \E i \in 1..NumProbes : SocketConnect(i)
    \/ \E i \in 1..NumProbes : SocketError(i)
    \/ \E i \in 1..NumProbes : SocketTimeout(i)
    \/ \E i \in 1..NumProbes : SocketClose(i)

SpecProbe == InitProbe /\ [][NextProbe]_vars

\* The event loop runs every callback that is due: an armed idle timer fires
\* while the socket is still connecting, and close is emitted after
\* destroy() and after an error.  Whether and when the network answers
\* (connect, error) is not up to the program.
ProbeFairness ==
    \A i \in 1..NumProbes :
        WF_vars(SocketTimeout(i)) /\ WF_vars(SocketClose(i))

SpecProbeFair == SpecProbe /\ ProbeFairness

----------------------------------------------------------------------------
(* Listing printers: GET /api/printers of part_000 (196-210) and of        *)
(* core/server.js (116-130).  The handler starts one probe per record,     *)
(* awaits Promise.all of them and then answers; probe i is the probe of    *)
(* the record at position i.  The body of the answer is the sequence of    *)
(* records, each with its online flag.                                     *)

\* the records the handler loaded
Listed ==
    IF variant = "p0" THEN P0_loadPrinters ELSE Core_loadPrinters

\* Promise.all over the first n probes is fulfilled
AllSettled_Any(n) ==
    \E i \in 1..n : probes[i].promise \in {"true", "false"}

AllSettled(n) ==
    \A i \in 1..n : probes[i].promise \in {"true", "false"}

\* Promise.all over the first n probes is rejected: the async handler
\* throws with nothing to catch it and the request is never answered
AnyRejected(n) ==
    \E i \in 1..n : probes[i].promise = "rejected"

\* a listing has been started and is neither answered nor dead
ListPending ==
    /\ req.route = "list"
    /\ resp.status = 0
    /\ ~AnyRejected(Len(Listed))

\* the array Promise.all yields: { ...p, online } in the order of the map
Enriched(printers) ==
    [k \in 1..Len(printers) |->
        [id |-> printers[k].id, online |-> probes[k].promise = "true"]]

\* the handler up to await Promise.all(...); targets[i] is how the endpoint
\* of record i behaves
ListStart(targets) ==
    /\ variant \in {"p0", "core"}
    /\ ~ListPending
    /\ req' = Request("list", NoHeaders, [id |-> ""])
    /\ resp' = NoAnswer("list")
    /\ probes' = [i \in 1..NumProbes |->
                    IF i <= Len(Listed) THEN StartProbe(IdleProbe, targets[i])
                    ELSE IdleProbe]
    /\ wire' = <<>>
    /\ UNCHANGED <<variant, authEnabled, printerFile, clientFile, printerEnv,
                   proc>>

\* a handler that kept the probes' results in the registry file
ListRespond_Storing ==
    /\ ListPending
    /\ AllSettled(Len(Listed))
    /\ resp' = [route |-> "list", status |-> 200, body |-> Enriched(Listed),
                found |-> FALSE]
    /\ printerFile' = Doc(Enriched(Listed))
    /\ UNCHANGED <<variant, authEnabled, clientFile, printerEnv, wire, probes,
                   proc, req>>

\* the handler after await Promise.all(...): res.json({ printers: ... })
ListRespond ==
    /\ ListPending
    /\ AllSettled(Len(Listed))
    /\ resp' = [route |-> "list", status |-> 200, body |-> Enriched(Listed),
                found |-> FALSE]
    /\ UNCHANGED <<variant, authEnabled, printerFile, clientFile, printerEnv,
                   wire, probes, proc, req>>

\* registries to list: two records in either order, and one record
ListRegistries ==
    {SeedPrinters, <<SeedPrinters[2], SeedPrinters[1]>>, <<SeedPrinters[1]>>}

InitList ==
    /\ variant \in {"p0", "core"}
    /\ authEnabled = FALSE
    /\ printerFile \in {Doc(r) : r \in ListRegistries}
    /\ clientFile = [kind |-> "doc", clients |-> SeedClients]
    /\ printerEnv = [exists |-> FALSE, lines |-> <<>>]
    /\ wire = <<>>
    /\ probes = [i \in 1..NumProbes |-> IdleProbe]
    /\ proc = FreshProc
    /\ req = NoRequest
    /\ resp = NoResponse

NextList ==
    \/ \E targets \in [1..Len(Listed) -> Targets] : ListStart(targets)
    \/ ListRespond
    \/ \E i \in 1..NumProbes : SocketConnect(i)
    \/ \E i \in 1..NumProbes : SocketError(i)
    \/ \E i \in 1..NumProbes : SocketTimeout(i)
    \/ \E i \in 1..NumProbes : SocketClose(i)

SpecList == InitList /\ [][NextList]_vars

----------------------------------------------------------------------------
(* The routes that read the stores (listing with its probes, test print,   *)
(* print) next to a route that writes the registry.  The model follows one *)
(* request at a time: while a listing is awaited no other request is       *)
(* handled.                                                                *)

\* headers of the requests: the registered client, or none
FrameHeaders == {ValidHeaders, NoHeaders}

InitFrame ==
    /\ variant \in {"p0", "core"}
    /\ authEnabled \in BOOLEAN
    /\ printerFile = Doc(SeedPrinters)
    /\ clientFile = [kind |-> "doc", clients |-> SeedClients]
    /\ printerEnv = [exists |-> FALSE, lines |-> <<>>]
    /\ wire = <<>>
    /\ probes = [i \in 1..NumProbes |-> IdleProbe]
    /\ proc = FreshProc
    /\ req = NoRequest
    /\ resp = NoResponse

NextFrame ==
    \/ \E targets \in [1..Len(Listed) -> Targets] : ListStart(targets)
    \/ ListRespond
    \/ \E i \in 1..NumProbes : SocketConnect(i)
    \/ \E i \in 1..NumProbes : SocketError(i)
    \/ \E i \in 1..NumProbes : SocketTimeout(i)
    \/ \E i \in 1..NumProbes : SocketClose(i)
    \/ /\ ~ListPending
       /\ \E hdr \in FrameHeaders, id \in ServerIds, online \in BOOLEAN,
             out \in ExecOutcomes : P0_PrinterTest(hdr, id, online, out)
    \/ /\ ~ListPending
       /\ \E hdr \in FrameHeaders, pid \in ServerIds, text \in Texts,
             out \in ExecOutcomes : P0_Print(hdr, pid, FALSE, text, out)
    \/ /\ ~ListPending
       /\ \E hdr \in FrameHeaders, pid \in ServerIds, payload \in Payloads,
             connected \in BOOLEAN, out \in ExecOutcomes :
             Core_Print(hdr, pid, payload, connected, out)
    \/ /\ ~ListPending
       /\ \E hdr \in FrameHeaders, id \in ServerIds : P0_PrinterDelete(hdr, id)

SpecFrame == InitFrame /\ [][NextFrame]_vars

----------------------------------------------------------------------------
(* The registry as the handlers read it *)

JsonRegistry == IF printerFile.kind = "doc" THEN printerFile.printers ELSE <<>>
EnvRegistry == Env_loadPrinters(printerEnv)

IsJson == variant \in {"root", "p0"}
Saved == req.route = "save" /\ resp.status = 200

\* how many records of the flattened registry have the role of the body
EnvCountRole(printers, role) ==
    Cardinality({i \in 1..Len(printers) :
                    ObjGet(printers[i].v, <<"role">>) = role})

----------------------------------------------------------------------------
(* Claims about the registry *)

\* C1: for every role, saving a record with a new id and that role while
\* three enabled records of the role are stored is refused with 400 and
\* leaves the stored registry as it was; with two stored, the third is
\* accepted and appended.
C1_QuotaOnCreate ==
    [][ /\ (variant = "root" /\ req'.route = "save" /\ printerFile.kind = "doc"
              /\ FindIndex(JsonRegistry, req'.body.id) = 0)
           => /\ (CountEnabledRole(JsonRegistry, req'.body.role) = 3
                   => resp'.status = 400 /\ printerFile' = printerFile)
              /\ (CountRole(JsonRegistry, req'.body.role) = 2
                    /\ CountEnabledRole(JsonRegistry, req'.body.role) = 2
                   => resp'.status = 200
                      /\ JsonRegistry' = Append(JsonRegistry, req'.body))
        /\ (variant = "env" /\ req'.route = "save")
           => \A body \in {req'.body}, post \in {printerEnv'} :
                LET n == EnvCountRole(EnvRegistry, ObjGet(body, <<"role">>))
                IN  KeyIndex(EnvRegistry, ObjGet(body, IdKey).s) = 0
                    => /\ (n = 3 => resp'.status = 400 /\ post = printerEnv)
                       /\ (n = 2 => resp'.status = 200
                                    /\ Len(Env_loadPrinters(post))
                                          = Len(EnvRegistry) + 1)
      ]_vars

\* C2: in every state reached from an empty registry by saves and deletes,
\* at most three enabled records share a role.
C2_AtMostThreePerRole ==
    /\ IsJson => \A role \in Roles : CountEnabledRole(JsonRegistry, role) <= 3
    /\ variant = "env" =>
         \A role \in EnvRoles :
             EnvCountRole(EnvRegistry, StrVal(<<role>>)) <= 3

\* C3: in every state reached from an empty registry by saves and deletes,
\* no two records of the stored registry have the same id.
C3_UniqueIds ==
    IsJson => \A i, j \in 1..Len(JsonRegistry) :
                  JsonRegistry[i].id = JsonRegistry[j].id => i = j

\* a save replaced a record of a registry that holds several
C3_Witness ==
    IsJson /\ Saved /\ resp.found /\ Len(JsonRegistry) = MaxPrinters

\* C4: a save whose id is already stored is never refused for the quota
\* and puts the request's record where the prior one was: same length,
\* same position, every other record as before.
C4_UpdateInPlace ==
    [][ (IsJson /\ req'.route = "save"
           /\ FindIndex(JsonRegistry, req'.body.id) > 0)
        => /\ resp'.status # 400
           /\ Len(JsonRegistry') = Len(JsonRegistry)
           /\ resp'.status = 200 =>
                \A i \in 1..Len(JsonRegistry) :
                    JsonRegistry'[i] =
                        IF i = FindIndex(JsonRegistry, req'.body.id)
                        THEN req'.body ELSE JsonRegistry[i]
           /\ variant = "root" => resp'.status = 200
      ]_vars

\* an update went through although its role already had more than the quota
C4_Witness ==
    /\ variant = "root" /\ Saved /\ resp.found
    /\ CountRole(JsonRegistry, "CASHIER") > MaxPerRole

\* C5: delete removes the record with the given id and nothing else, the
\* rest keeps its order; deleting an id that is not stored answers success
\* and leaves the collection as it was, so a second delete changes nothing.
C5_DeleteById ==
    [][ /\ (variant = "p0" /\ req'.route = "delete" /\ resp'.status \notin {401, 403})
           => /\ resp'.status = 200
              /\ JsonRegistry' =
                    SelectSeq(JsonRegistry, LAMBDA r : r.id # req'.body.id)
              /\ FindIndex(JsonRegistry, req'.body.id) = 0
                    => JsonRegistry' = JsonRegistry
        /\ (variant = "env" /\ req'.route = "delete")
           => \A id \in {req'.body.id}, post \in {printerEnv'} :
                /\ resp'.status = 200
                /\ Env_loadPrinters(post) =
                      SelectSeq(EnvRegistry, LAMBDA e : e.k # id)
                /\ KeyIndex(EnvRegistry, id) = 0
                      => Env_loadPrinters(post) = EnvRegistry
      ]_vars

----------------------------------------------------------------------------
(* Claims about the auth gate *)

\* the route of the request runs behind the server's gate
Gated(r) ==
    \/ variant \in {"p0", "core"} /\ r.route \in {"save", "delete", "test", "print"}
    \/ variant = "root" /\ r.route = "print"

\* the operations the interface calls privileged
Privileged == {"save", "delete", "test", "print", "img", "pdftoimg"}

BothPresent(hdr) == hdr.cid # NoHeader /\ hdr.key # NoHeader

\* the id of a stored client with a key that is not its pin
CorrectIdWrongKey(hdr) ==
    /\ hdr.key # NoHeader
    /\ \E i \in 1..Len(clientFile.clients) :
          /\ clientFile.clients[i].id = hdr.cid
          /\ clientFile.clients[i].pin # hdr.key

\* C6: with auth enabled a gated request with a stored client id and a wrong
\* key is answered 403 and one that omits a header is answered 401; with
\* auth disabled both get past the gate.
C6_ForbiddenOrUnauthorized ==
    [][ Gated(req') =>
          /\ (authEnabled /\ CorrectIdWrongKey(req'.hdr)) => resp'.status = 403
          /\ (authEnabled /\ ~BothPresent(req'.hdr)) => resp'.status = 401
          /\ (~authEnabled
                /\ (CorrectIdWrongKey(req'.hdr) \/ ~BothPresent(req'.hdr)))
             => resp'.status \notin {401, 403}
      ]_vars

\* C7: with auth enabled, two gated requests that carry both headers and
\* fail for any of the three causes (unknown id, disabled client, key that
\* is not the pin) get the same status and the same body.
C7_SameRejection ==
    [][ ( /\ authEnabled
          /\ Gated(req) /\ Gated(req')
          /\ BothPresent(req.hdr) /\ BothPresent(req'.hdr)
          /\ ~FindValid(clientFile.clients, req.hdr)
          /\ ~FindValid(clientFile.clients, req'.hdr) )
        => resp'.status = resp.status /\ resp'.body = resp.body
      ]_vars

\* C8: with auth enabled, a request to a privileged operation without the id
\* and pin of a stored enabled client is answered 401 or 403, writes nothing
\* to the registry and transmits nothing.
C8_RejectedBeforeEffect ==
    [][ ( /\ authEnabled
          /\ req'.route \in Privileged
          /\ ~FindValid(clientFile.clients, req'.hdr) )
        => /\ resp'.status \in {401, 403}
           /\ printerFile' = printerFile
           /\ wire' = <<>>
      ]_vars

----------------------------------------------------------------------------
(* Claims about the liveness probe *)

Settled(p) == p.promise \in {"true", "false"}

\* C9: a probe never raises; one whose connection is refused, whose host is
\* unreachable or whose timer fires first resolves false, and one whose
\* handshake completes first resolves true, whether the remote then sends
\* data or not.
C9_ProbeNeverRaises ==
    \A i \in DOMAIN probes :
        LET p == probes[i]
        IN  /\ p.promise # "rejected"
            /\ Settled(p) =>
                 /\ p.target \in {"refused", "unreachable"} => p.promise = "false"
                 /\ Head(p.events) = "timeout" => p.promise = "false"
                 /\ (Head(p.events) = "connect" /\ p.target \in {"open", "chatty"})
                       => p.promise = "true"

\* C10: the result of a probe is settled at most once, it is the result of
\* the first of connect, error and timeout to fire, and no later event
\* changes it.
C10_SettledOnce ==
    [][ \A i \in DOMAIN probes :
          LET p == probes[i]
              q == probes'[i]
          IN  /\ p.promise # "pending" => q.promise = p.promise
              /\ q.settles <= 1
              /\ q.promise = "true" =>
                    q.events # <<>> /\ Head(q.events) = "connect"
              /\ q.promise = "false" =>
                    q.events # <<>> /\ Head(q.events) \in {"error", "timeout"}
      ]_vars

\* the timer fired first and the handshake completed after it: the result
\* is still the timer's
C10_Witness ==
    \E i \in DOMAIN probes :
        /\ probes[i].events = <<"timeout", "connect", "close">>
        /\ probes[i].promise = "false"

\* C11: every probe that was started eventually resolves to a boolean; one
\* whose target is closed, unreachable or silent has resolved false once its
\* timer has fired and its socket closed, and one whose handshake completes
\* first resolves true.
C11_ProbeResolves ==
    \A i \in 1..NumProbes :
        /\ (probes[i].phase # "idle") ~> Settled(probes[i])
        /\ [](( /\ probes[i].target \in {"refused", "unreachable", "silent"}
                /\ Settled(probes[i]) )
              => probes[i].promise = "false")
        /\ []((probes[i].timedOut /\ probes[i].phase = "closed")
              => probes[i].promise # "pending")
        /\ (probes[i].events # <<>> /\ Head(probes[i].events) = "connect")
              ~> (probes[i].promise = "true")

----------------------------------------------------------------------------
(* Claims about dispatch *)

DispatchRoutes == {"test", "print", "img", "pdftoimg"}

\* the printer id a dispatch request asks for
ReqPrinter(r) == IF r.route = "test" THEN r.body.id ELSE r.body.pid

\* the registry holds an enabled record for the printer the request asks for
EnabledMatch(r) ==
    CASE variant \in {"root", "p0"} ->
           \E i \in 1..Len(JsonRegistry) :
               JsonRegistry[i].id = ReqPrinter(r) /\ JsonRegistry[i].enabled
      [] variant = "core" ->
           \E i \in 1..Len(JsonRegistry) :
               /\ Lower(JsonRegistry[i].id) = Lower(ReqPrinter(r))
               /\ JsonRegistry[i].enabled
      [] OTHER ->
           \E i \in 1..Len(EnvRegistry) :
               /\ EnvRegistry[i].k = ReqPrinter(r)
               /\ ObjGet(EnvRegistry[i].v, <<"status">>) = StrVal(<<"enabled">>)

\* the request names a printer and carries what its route requires
WellFormed(r) ==
    /\ ReqPrinter(r) # NoHeader
    /\ (variant = "p0" /\ r.route = "print") => r.body.text # ""

\* C12: a dispatch request puts a job on the wire or opens a socket to a
\* printer only when the registry holds an enabled record for the requested
\* id; a well-formed request that passed the gate and asks for an unknown or
\* disabled printer is answered 404 and transmits nothing.
C12_OnlyEnabledPrinters ==
    [][ req'.route \in DispatchRoutes =>
          LET sends == wire' # <<>> \/ Len(proc'.sockets) > Len(proc.sockets)
          IN  /\ sends => EnabledMatch(req')
              /\ ( /\ ~EnabledMatch(req')
                   /\ WellFormed(req')
                   /\ resp'.status \notin {401, 403} )
                 => resp'.status = 404 /\ ~sends
      ]_vars

\* C13: in every job handed to a printer the cut is the last command and is
\* written once, a text job is the text line followed by the cut, and a raw
\* socket that was half-closed had the text, then the cut, written before
\* the half-close.
C13_CutLast ==
    /\ \A k \in 1..Len(wire) :
          LET c == wire[k].cmds
          IN  /\ c[Len(c)].op = "cut"
              /\ \A m \in 1..(Len(c) - 1) : c[m].op # "cut"
              /\ wire[k].kind = "text" => c = Ops(<<"println", "cut">>)
    /\ \A i \in 1..Len(proc.sockets) :
          proc.sockets[i].phase = "ended"
             => proc.sockets[i].written = <<"text", "cut", "end">>

\* C14: a dispatch request is answered, and it is answered with success only
\* when the job was transmitted: on the printer library's routes the job is
\* on the wire, on the raw socket the text was written and the socket
\* half-closed.
C14_SuccessAfterTransmission ==
    [][ req'.route \in DispatchRoutes =>
          /\ resp'.status # 0
          /\ (variant # "env" /\ resp'.status = 200) => wire' # <<>>
          /\ ( /\ variant = "env"
               /\ Len(proc'.sockets) > Len(proc.sockets)
               /\ resp'.status = 200 )
             => proc'.sockets[Len(proc'.sockets)].phase = "ended"
      ]_vars

\* C15: whatever a printer endpoint does, the server process keeps running.
C15_ServerStaysUp == proc.up

\* whether the reachability probe of the request answered that the printer
\* is there
Probed(r) ==
    IF variant = "p0" THEN r.body.online ELSE r.body.connected

\* the requests whose handler probes the printer before it prints
ProbedRequest(r) ==
    \/ variant = "p0" /\ r.route = "test"
    \/ variant = "core" /\ r.route = "print"

\* C16: where the handler probes the printer first, nothing is transmitted
\* unless the probe found the printer, and a request that passed the gate
\* and named an enabled printer the probe found offline is answered 500
\* "Printer offline".
C16_ProbeBeforePrint ==
    [][ ProbedRequest(req') =>
          /\ wire' # <<>> => Probed(req')
          /\ ( /\ ~Probed(req')
               /\ resp'.status \notin {400, 401, 403, 404} )
             => /\ resp'.status = 500
                /\ resp'.body = "Printer offline"
                /\ wire' = <<>>
      ]_vars

C16_Witness ==
    /\ ProbedRequest(req)
    /\ ~Probed(req)
    /\ resp.status = 500
    /\ resp.body = "Printer offline"
    /\ wire = <<>>

\* the invoice marker and the text of a POST /print body
Marker(r) == IF variant = "core" THEN r.body.payload.marker ELSE r.body.marker
TextOf(r) == IF variant = "core" THEN r.body.payload.text ELSE r.body.text

\* a POST /print that reached the classification of its body: it passed the
\* gate, named an enabled printer, and the printer was found reachable
Classified(r, a) ==
    /\ r.route = "print"
    /\ variant \in {"p0", "core"}
    /\ r.body.pid # NoHeader
    /\ a.status \notin {401, 403, 404}
    /\ variant = "core" => r.body.connected

\* C17: a body with the invoice marker is sent as an invoice and answered
\* with mode "invoice", also when it has a text; a body with a text and no
\* marker is sent as text and answered with mode "text"; a body with neither
\* is answered 400 and nothing is sent.
C17_Classification ==
    [][ Classified(req', resp') =>
          LET mode == IF Marker(req') THEN "invoice" ELSE "text"
          IN  IF Marker(req') \/ TextOf(req') # ""
              THEN /\ wire' # <<>> => wire'[1].kind = mode
                   /\ resp'.status = 200 => resp'.body = mode
                   /\ resp'.status \in {200, 500}
              ELSE resp'.status = 400 /\ wire' = <<>>
      ]_vars

----------------------------------------------------------------------------
(* Claims about the invoice renderer *)

\* the commands that put something on the paper or cut it, the optional
\* lines of the company header and of the bill header left aside
Printed(cmd) ==
    /\ cmd.op \in {"println", "drawLine", "tableCustom", "cut"}
    /\ cmd.text \notin {"Place", "Ph", "GSTIN", "Party"}

\* the invoice of the last request
InvoiceOf(r) == r.body.payload.data

\* C18: an invoice job of n items is, in this order, the company header, a
\* rule, the bill number line, the date line, a rule, n table rows in input
\* order numbered 1..n whose item name is cut to at most 18 characters, a
\* rule, the net total, the closing line and one cut, which is the last
\* command and the only cut.
C18_InvoiceOrder ==
    \A j \in 1..Len(wire) :
       wire[j].kind = "invoice" =>
          LET c == wire[j].cmds
              table == InvoiceOf(req).table
              n == Len(table)
              shown == SelectSeq(c, Printed)
          IN  /\ Len(shown) = n + 9
              /\ shown[1].op = "println"
              /\ shown[1].text \in {"Name", "COMPANY"}
              /\ shown[2].op = "drawLine"
              /\ shown[3] = Cmd("println", "Bill No", 0, 0)
              /\ shown[4] = Cmd("println", "Date", 0, 0)
              /\ shown[5].op = "drawLine"
              /\ \A k \in 1..n :
                    /\ shown[5 + k].op = "tableCustom"
                    /\ shown[5 + k].seq = k
                    /\ shown[5 + k].len <= 18
                    /\ shown[5 + k].len =
                          IF table[k].len <= 18 THEN table[k].len ELSE 18
              /\ shown[n + 6].op = "drawLine"
              /\ shown[n + 7] = Cmd("println", "NET TOTAL", 0, 0)
              /\ shown[n + 8] = Cmd("println", "Thank you!", 0, 0)
              /\ shown[n + 9].op = "cut"
              /\ c[Len(c)].op = "cut"
              /\ \A k \in 1..(Len(c) - 1) : c[k].op # "cut"

C18_Witness ==
    /\ wire # <<>>
    /\ wire[1].kind = "invoice"
    /\ Len(InvoiceOf(req).table) = 2
    /\ InvoiceOf(req).table[2].len = 19
    /\ \E k \in 1..Len(wire[1].cmds) :
          wire[1].cmds[k] = Cmd("tableCustom", "item", 2, 18)

----------------------------------------------------------------------------
(* Claims about the stores *)

\* C19: a save or delete that finds the printer file missing, empty or
\* unparsable is not answered with a server error; it works on an empty
\* registry, so the file it leaves is a document of at most the saved record.
C19_UnreadableFileIsEmpty ==
    [][ ( /\ variant \in {"root", "p0"}
          /\ printerFile.kind \in {"missing", "empty", "corrupt"}
          /\ req'.route \in {"save", "delete"}
          /\ resp'.status \notin {401, 403} )
        => /\ resp'.status \notin {0, 500}
           /\ printerFile'.kind = "doc"
           /\ Len(printerFile'.printers) <= 1
           /\ req'.route = "delete" => printerFile'.printers = <<>>
      ]_vars

\* the client records the server works with
Clients == IF variant = "env" THEN proc.clients ELSE P0_loadClients

C21_UniqueClientIds ==
    \A i, j \in 1..Len(Clients) : Clients[i].id = Clients[j].id => i = j

----------------------------------------------------------------------------
(* Further claims about the probe *)

\* C23: when a probe has resolved, its socket is no longer open: it was
\* destroyed, it failed, or it has closed.
C23_ResolvedMeansClosed ==
    \A i \in 1..NumProbes :
       probes[i].promise \in {"true", "false"}
          => probes[i].phase \in {"destroyed", "failed", "closed"}

\* C22: while a listing is awaited there is one probe per record of the
\* registry and none beyond; a listing is answered only when every one of
\* its probes has resolved, and the answer holds the records in stored
\* order, record k with the result of probe k.
C22_ListInStoredOrder ==
    /\ (req.route = "list" /\ resp.status = 0)
          => \A i \in 1..NumProbes :
                (i <= Len(Listed)) <=> (probes[i].phase # "idle")
    /\ (resp.route = "list" /\ resp.status = 200)
          => /\ \A i \in 1..Len(Listed) :
                   probes[i].promise \in {"true", "false"}
             /\ Len(resp.body) = Len(Listed)
             /\ \A k \in 1..Len(Listed) :
                   /\ resp.body[k].id = Listed[k].id
                   /\ resp.body[k].online = (probes[k].promise = "true")

\* a listing of two records was answered, the first offline after its idle
\* timer fired, the second online
C22_Witness ==
    /\ resp.route = "list"
    /\ resp.status = 200
    /\ Len(resp.body) = 2
    /\ ~resp.body[1].online
    /\ probes[1].timedOut
    /\ resp.body[2].online

----------------------------------------------------------------------------
(* Claims about overlapping requests *)

\* C24 as stated: while the handler of one request is between its read and
\* its write of the registry, the handler of another request that has
\* arrived can run its read.
C24_CanInterleave ==
    \A i, j \in 1..Len(proc.calls) :
       (proc.calls[i].pc = "read" /\ proc.calls[j].pc = "arrived")
          => ENABLED HandlerRead(j)

\* C24: a handler that has read the registry writes over the registry it
\* read: from its read to its write the file is not written by any other
\* request, so no change is lost.
C24_NoLostUpdate ==
    \A i \in 1..Len(proc.calls) :
       proc.calls[i].pc = "read" => proc.calls[i].local = Stored

\* two saves of different ids overlapped, the second arriving while the
\* first was between its read and its write, and the registry holds both
C24_Witness ==
    /\ Len(proc.calls) = 2
    /\ \A i \in 1..2 : proc.calls[i].pc = "done" /\ proc.calls[i].op = "save"
    /\ proc.calls[2].during
    /\ proc.calls[1].body.id # proc.calls[2].body.id
    /\ \A i \in 1..2 : proc.calls[i].local # Stored
    /\ \A i \in 1..2 : FindIndex(Stored, proc.calls[i].body.id) > 0

----------------------------------------------------------------------------
(* Claims about what the reading routes leave alone *)

\* the routes that only read the stores
ReadingRoutes == {"list", "test", "print"}

\* C25: a step of a listing, of one of its probes, of a test print or of a
\* print leaves the registry file, the clients file, printer.env and the
\* clients in memory as they were.
C25_ReadersWriteNothing ==
    [][ req'.route \in ReadingRoutes =>
          /\ printerFile' = printerFile
          /\ clientFile' = clientFile
          /\ printerEnv' = printerEnv
          /\ proc'.clients = proc.clients
      ]_vars

\* a listing was answered with a record online, and the registry file holds
\* the records without any online flag
C25_Witness ==
    /\ resp.route = "list"
    /\ resp.status = 200
    /\ \E k \in 1..Len(resp.body) : resp.body[k].online
    /\ printerFile = Doc(SeedPrinters)

----------------------------------------------------------------------------
(* Claims about the printer.env encoding *)

\* C26: after a save that writes printer.env, loading the file gives the
\* collection the handler handed to savePrinters: the same ids in the same
\* order, and for each id the same fields with the same values.
C26_EnvRoundTrip ==
    [][ ( /\ variant = "env"
          /\ req'.route = "save"
          /\ resp'.status = 200 )
        => \A pre \in {printerEnv}, post \in {printerEnv'}, body \in {req'.body} :
              Env_loadPrinters(post)
                 = Env_save(Env_loadPrinters(pre), body).printers
      ]_vars

====
